---- MODULE Spec2Model ----
(***************************************************************************)
(* Model of the desired-area search of analysisFunctions.py:               *)
(*   _dbscan_clustering, _determine_start_neighbours,                      *)
(*   _determine_desired_area, find_n_desired_areas, find_all_desired_areas *)
(*                                                                         *)
(* A cell is one row of the geodataframe.  Rows are keyed by their geohash *)
(* (a unique key), so a cell is identified with its geohash, here a        *)
(* number.  The centroid of a cell is a point of a line; the distance      *)
(* between two centroids is the absolute difference of the coordinates.    *)
(* The density clusterer is sklearn's DBSCAN: it is modelled by what it    *)
(* computes (core points, clusters of density-connected core points,       *)
(* border points, noise).                                                  *)
(***************************************************************************)
EXTENDS Integers, Sequences, FiniteSets, TLC

\* ------------------------------------------------------------------ bounds
\* Sizes of the groups of co-located hotspot cells the inputs are built of.
Dense == 50
Twin == 51
Big == 60
Solo == 101
\* Largest n_desired_areas tried.
MaxCount == 2
\* Number of rows of gdf_spot that are not hotspots.
NumColdspots == 2
\* The eps radius handed to DBSCAN, in units of the coordinate line.
RangeOfArea == 1

\* ------------------------------------------------------- program constants
\* 0.005 = StepNum / StepDen  (steps = int(np.round(n_sites * 0.005)))
StepNum == 5
StepDen == 1000
\* steps = 5 in _determine_desired_area
InitialSteps == 5
\* stop_n_neighbour = 1 in _determine_desired_area
InitialStop == 1
\* past_len_labels = 1 and the exclusive end of range(n_sites, 1, -steps)
InitialPastLen == 1
RangeEnd == 1
\* DBSCAN's label of a noise point
Noise == -1
\* a local variable that has not been assigned yet
Unbound == -2

\* ------------------------------------------------------------------ inputs
\* A layout lists, position by position along the line, how many hotspot
\* cells have their centroid there (0: nobody).
Layouts ==
  { << >>,
    << 1 >>,
    << 1, 0, 1 >>,
    << Dense, 0, Dense >>,
    << Dense, 1, 1, 1, Dense - 1, 0, 1 >>,
    << Dense, 0, Dense - 1, 0, 1, 0, 1 >>,
    << Big, 0, Twin, 0, Twin >>,
    << Solo >> }

RECURSIVE SumSeq(_)
SumSeq(s) == IF s = << >> THEN 0 ELSE Head(s) + SumSeq(Tail(s))

RECURSIVE PositionOf(_, _)
\* the position of the k-th cell of a layout (cells are numbered along the line)
PositionOf(s, k) ==
  IF k <= Head(s) THEN 1 ELSE 1 + PositionOf(Tail(s), k - Head(s))

Max(S) == CHOOSE x \in S : \A y \in S : y <= x
Min(S) == CHOOSE x \in S : \A y \in S : x <= y
Abs(x) == IF x < 0 THEN -x ELSE x

VARIABLES
  gdf_spot,           \* the rows (cells) of the input frame
  spot,               \* gdf_spot['spot'], per cell
  centroid,           \* the centroid coordinate of each cell
  op,                 \* the public operation that was called
  n_desired_areas,    \* its argument (find_n_desired_areas)
  pc,                 \* the position in the code
  error,              \* the exception that was raised, "none" if none
  gdf_hotspot,        \* the remainder: the rows still to be clustered
  cluster,            \* gdf_hotspot['cluster'], as left by the last DBSCAN
  labels,             \* np.unique of the last DBSCAN's labels
  desired_geohash,    \* the geohashes claimed so far
  geohash_rank,       \* find_all_desired_areas: the dict geohash -> rank
  i,                  \* find_all_desired_areas: the rank of this iteration
  k_iter,             \* number of peel iterations completed
  start_neighbours,   \* the caller's start_neighbours
  n_sites,            \* _determine_start_neighbours: len(gdf_hotspot)
  dsn_steps,          \* _determine_start_neighbours: steps
  past_len_labels,    \* _determine_start_neighbours: past_len_labels
  n_neighbours,       \* the loop variable of the running scan
  current_len_labels, \* len(labels) of the last call of the running scan
  dda_start,          \* _determine_desired_area: its start_neighbours
  stop_n_neighbour,   \* _determine_desired_area: stop_n_neighbour
  steps,              \* _determine_desired_area: steps
  printed,            \* the last line of _print_process
  matched,            \* _determine_desired_area: some scan of this call has
                      \* yielded exactly 2 labels (history of the breaks)
  dbscan_calls,       \* number of DBSCAN fits made so far
  result              \* the column returned: desired_area or rank_desired_area

vars == << gdf_spot, spot, centroid, op, n_desired_areas, pc, error,
           gdf_hotspot, cluster, labels, desired_geohash, geohash_rank, i,
           k_iter, start_neighbours, n_sites, dsn_steps, past_len_labels,
           n_neighbours, current_len_labels, dda_start, stop_n_neighbour,
           steps, printed, matched, dbscan_calls, result >>

\* ------------------------------------------------------------ pure helpers
\* int(np.round(num / den)) for num, den >= 0: numpy rounds halves to even.
RoundHalfEven(num, den) ==
  LET q == num \div den
      r == num % den
  IN  IF 2 * r < den THEN q
      ELSE IF 2 * r > den THEN q + 1
      ELSE IF q % 2 = 0 THEN q ELSE q + 1

\* steps of _determine_start_neighbours
StartSteps(n) == RoundHalfEven(n * StepNum, StepDen)

\* gdf_spot.loc[gdf_spot['spot'] == 'hotspot', :]
Hotspots == {c \in gdf_spot : spot[c] = "hotspot"}

RECURSIVE SumOver(_, _)
SumOver(f, S) ==
  IF S = {} THEN 0
  ELSE LET x == CHOOSE y \in S : TRUE IN f[x] + SumOver(f, S \ {x})

\* DBSCAN(eps, min_samples = n).fit(centroids of S).labels_, per cell of S.
\* A point is a core point when at least n points of S (itself included) lie
\* within eps of it; core points within eps of each other share a cluster; a
\* point that is not core but within eps of a core point joins the first
\* cluster found that reaches it; every other point is noise (-1).  Clusters
\* are numbered 0, 1, ... in the order the fit finds them, which is the order
\* of the rows, here the order along the line.
DBSCAN(S, eps, n) ==
  LET xs == {centroid[c] : c \in S}
      cnt == [x \in xs |-> Cardinality({c \in S : centroid[c] = x})]
      near == [x \in xs |-> {y \in xs : Abs(x - y) <= eps}]
      core == {x \in xs : SumOver(cnt, near[x]) >= n}
      root[x \in core] ==
        LET before == {y \in core : y < x /\ x - y <= eps}
        IN  IF before = {} THEN x ELSE root[Max(before)]
      roots == {root[x] : x \in core}
      number(r) == Cardinality({q \in roots : q < r})
      lab == [x \in xs |->
                IF x \in core THEN number(root[x])
                ELSE LET reach == near[x] \cap core
                     IN  IF reach = {} THEN Noise
                         ELSE number(root[Min(reach)])]
  IN  [c \in S |-> lab[centroid[c]]]

\* np.unique(clustering.labels_)
Unique(col) == {col[c] : c \in DOMAIN col}

\* ------------------------------------------------------------------- Init
Init ==
  \E lay \in Layouts, o \in {"find_all", "find_n"}, cnt \in 0 .. MaxCount :
    LET nhot == SumSeq(lay) IN
    /\ o = "find_all" => cnt = 0
    /\ gdf_spot = 1 .. (nhot + NumColdspots)
    /\ spot = [c \in 1 .. (nhot + NumColdspots) |->
                 IF c <= nhot THEN "hotspot" ELSE "coldspot"]
    /\ centroid = [c \in 1 .. (nhot + NumColdspots) |->
                     IF c <= nhot THEN PositionOf(lay, c) ELSE 1]
    /\ op = o
    /\ n_desired_areas = cnt
    /\ pc = "idle"
    /\ error = "none"
    /\ gdf_hotspot = {}
    /\ cluster = << >>
    /\ labels = {}
    /\ desired_geohash = {}
    /\ geohash_rank = << >>
    /\ i = 0
    /\ k_iter = 0
    /\ start_neighbours = Unbound
    /\ n_sites = 0
    /\ dsn_steps = 0
    /\ past_len_labels = 0
    /\ n_neighbours = Unbound
    /\ current_len_labels = Unbound
    /\ dda_start = 0
    /\ stop_n_neighbour = 0
    /\ steps = 0
    /\ printed = << >>
    /\ matched = FALSE
    /\ dbscan_calls = 0
    /\ result = << >>


\* ---------------------------------------------------------------- actions
inputs == << gdf_spot, spot, centroid, op, n_desired_areas >>
dsn_locals == << n_sites, dsn_steps, past_len_labels >>
dda_locals == << dda_start, stop_n_neighbour, steps, printed, matched >>
scan_state == << n_neighbours, current_len_labels, cluster, labels,
                 dbscan_calls >>
peel_state == << gdf_hotspot, desired_geohash, geohash_rank, i, k_iter >>

\* find_all_desired_areas, up to the loop
find_all_enter ==
  /\ pc = "idle" /\ op = "find_all"
  /\ gdf_hotspot' = Hotspots
  /\ desired_geohash' = {}
  /\ geohash_rank' = << >>
  /\ i' = 1
  /\ pc' = "loop"
  /\ UNCHANGED << inputs, error, k_iter, start_neighbours, dsn_locals,
                  dda_locals, scan_state, result >>

\* find_n_desired_areas, up to the loop
find_n_enter ==
  /\ pc = "idle" /\ op = "find_n"
  /\ gdf_hotspot' = Hotspots
  /\ desired_geohash' = {}
  /\ pc' = "loop"
  /\ UNCHANGED << inputs, error, geohash_rank, i, k_iter, start_neighbours,
                  dsn_locals, dda_locals, scan_state, result >>

\* find_all_loop that leaves the loop after the first peel iteration
find_all_loop_once ==
  /\ pc = "loop" /\ op = "find_all"
  /\ pc' = IF Cardinality(gdf_hotspot) # 0 /\ k_iter < 1
             THEN "dsn_enter" ELSE "finish"
  /\ UNCHANGED << inputs, error, peel_state, start_neighbours, dsn_locals,
                  dda_locals, scan_state, result >>

\* while len(gdf_hotspot) != 0:
find_all_loop ==
  /\ pc = "loop" /\ op = "find_all"
  /\ pc' = IF Cardinality(gdf_hotspot) # 0 THEN "dsn_enter" ELSE "finish"
  /\ UNCHANGED << inputs, error, peel_state, start_neighbours, dsn_locals,
                  dda_locals, scan_state, result >>

\* for _ in range(n_desired_areas):
find_n_loop ==
  /\ pc = "loop" /\ op = "find_n"
  /\ pc' = IF k_iter < n_desired_areas THEN "dsn_enter" ELSE "finish"
  /\ UNCHANGED << inputs, error, peel_state, start_neighbours, dsn_locals,
                  dda_locals, scan_state, result >>

\* _determine_start_neighbours, up to the first element of
\* range(n_sites, 1, -steps); range() raises ValueError for a step of 0
dsn_enter ==
  /\ pc = "dsn_enter"
  /\ n_sites' = Cardinality(gdf_hotspot)
  /\ dsn_steps' = StartSteps(n_sites')
  /\ past_len_labels' = InitialPastLen
  /\ current_len_labels' = Unbound
  /\ IF dsn_steps' = 0
       THEN /\ pc' = "raised"
            /\ error' = "ValueError"
            /\ n_neighbours' = Unbound
       ELSE /\ error' = error
            /\ IF n_sites' > RangeEnd
                 THEN n_neighbours' = n_sites' /\ pc' = "dsn_call"
                 ELSE n_neighbours' = Unbound /\ pc' = "dsn_exit"
  /\ UNCHANGED << inputs, peel_state, start_neighbours, dda_locals, cluster,
                  labels, dbscan_calls, result >>

\* one turn of the loop of _determine_start_neighbours
dsn_call ==
  /\ pc = "dsn_call"
  /\ LET col == DBSCAN(gdf_hotspot, RangeOfArea, n_neighbours)
         cur == Cardinality(Unique(col))
     IN  /\ cluster' = col
         /\ labels' = Unique(col)
         /\ current_len_labels' = cur
         /\ dbscan_calls' = dbscan_calls + 1
         /\ IF past_len_labels # cur
              THEN /\ pc' = "dsn_exit"
                   /\ UNCHANGED << past_len_labels, n_neighbours >>
              ELSE /\ past_len_labels' = cur
                   /\ IF n_neighbours - dsn_steps > RangeEnd
                        THEN /\ n_neighbours' = n_neighbours - dsn_steps
                             /\ pc' = "dsn_call"
                        ELSE /\ n_neighbours' = n_neighbours
                             /\ pc' = "dsn_exit"
  /\ UNCHANGED << inputs, error, peel_state, start_neighbours, n_sites,
                  dsn_steps, dda_locals, result >>

\* dsn_exit with n_sites taken for n_neighbours
dsn_exit_from_sites ==
  /\ pc = "dsn_exit"
  /\ IF n_neighbours = Unbound
       THEN /\ pc' = "raised"
            /\ error' = "UnboundLocalError"
            /\ UNCHANGED start_neighbours
       ELSE /\ start_neighbours' = n_sites + dsn_steps
            /\ pc' = "dda_enter"
            /\ UNCHANGED error
  /\ UNCHANGED << inputs, peel_state, dsn_locals, dda_locals, scan_state,
                  result >>

\* dsn_exit with the step subtracted instead of added
dsn_exit_minus ==
  /\ pc = "dsn_exit"
  /\ IF n_neighbours = Unbound
       THEN /\ pc' = "raised"
            /\ error' = "UnboundLocalError"
            /\ UNCHANGED start_neighbours
       ELSE /\ start_neighbours' = n_neighbours - dsn_steps
            /\ pc' = "dda_enter"
            /\ UNCHANGED error
  /\ UNCHANGED << inputs, peel_state, dsn_locals, dda_locals, scan_state,
                  result >>

\* start_neighbours = n_neighbours + steps, returned to the caller
dsn_exit ==
  /\ pc = "dsn_exit"
  /\ IF n_neighbours = Unbound
       THEN /\ pc' = "raised"
            /\ error' = "UnboundLocalError"
            /\ UNCHANGED start_neighbours
       ELSE /\ start_neighbours' = n_neighbours + dsn_steps
            /\ pc' = "dda_enter"
            /\ UNCHANGED error
  /\ UNCHANGED << inputs, peel_state, dsn_locals, dda_locals, scan_state,
                  result >>

\* _determine_desired_area, up to the while
dda_enter ==
  /\ pc = "dda_enter"
  /\ dda_start' = start_neighbours
  /\ stop_n_neighbour' = InitialStop
  /\ steps' = InitialSteps
  /\ matched' = FALSE
  /\ n_neighbours' = Unbound
  /\ current_len_labels' = Unbound
  /\ pc' = "dda_while"
  /\ UNCHANGED << inputs, error, peel_state, start_neighbours, dsn_locals,
                  printed, cluster, labels, dbscan_calls, result >>

\* while steps > 0: and the first element of
\* range(start_neighbours, stop_n_neighbour - 1, -steps); return after the while
dda_while ==
  /\ pc = "dda_while"
  /\ IF steps > 0
       THEN IF dda_start > stop_n_neighbour - 1
              THEN n_neighbours' = dda_start /\ pc' = "dda_call"
              ELSE n_neighbours' = n_neighbours /\ pc' = "dda_after"
       ELSE n_neighbours' = n_neighbours /\ pc' = "peel"
  /\ UNCHANGED << inputs, error, peel_state, start_neighbours, dsn_locals,
                  dda_locals, current_len_labels, cluster, labels,
                  dbscan_calls, result >>

\* dda_call over range(start_neighbours, stop_n_neighbour, -steps): the
\* scan goes on only above stop_n_neighbour
dda_call_excludes_stop ==
  /\ pc = "dda_call"
  /\ LET col == DBSCAN(gdf_hotspot, RangeOfArea, n_neighbours)
         cur == Cardinality(Unique(col))
     IN  /\ cluster' = col
         /\ labels' = Unique(col)
         /\ current_len_labels' = cur
         /\ dbscan_calls' = dbscan_calls + 1
         /\ matched' = (matched \/ cur = 2)
         /\ IF cur = 2
              THEN /\ stop_n_neighbour' = n_neighbours
                   /\ dda_start' = n_neighbours + steps
                   /\ n_neighbours' = n_neighbours
                   /\ pc' = "dda_after"
              ELSE /\ UNCHANGED << stop_n_neighbour, dda_start >>
                   /\ IF n_neighbours - steps > stop_n_neighbour
                        THEN /\ n_neighbours' = n_neighbours - steps
                             /\ pc' = "dda_call"
                        ELSE /\ n_neighbours' = n_neighbours
                             /\ pc' = "dda_after"
  /\ UNCHANGED << inputs, error, peel_state, start_neighbours, dsn_locals,
                  steps, printed, result >>

\* one turn of the for loop of _determine_desired_area
dda_call ==
  /\ pc = "dda_call"
  /\ LET col == DBSCAN(gdf_hotspot, RangeOfArea, n_neighbours)
         cur == Cardinality(Unique(col))
     IN  /\ cluster' = col
         /\ labels' = Unique(col)
         /\ current_len_labels' = cur
         /\ dbscan_calls' = dbscan_calls + 1
         /\ matched' = (matched \/ cur = 2)
         /\ IF cur = 2
              THEN /\ stop_n_neighbour' = n_neighbours
                   /\ dda_start' = n_neighbours + steps
                   /\ n_neighbours' = n_neighbours
                   /\ pc' = "dda_after"
              ELSE /\ UNCHANGED << stop_n_neighbour, dda_start >>
                   /\ IF n_neighbours - steps > stop_n_neighbour - 1
                        THEN /\ n_neighbours' = n_neighbours - steps
                             /\ pc' = "dda_call"
                        ELSE /\ n_neighbours' = n_neighbours
                             /\ pc' = "dda_after"
  /\ UNCHANGED << inputs, error, peel_state, start_neighbours, dsn_locals,
                  steps, printed, result >>

\* dda_after with the reset made after every pass without a match
dda_after_always_reset ==
  /\ pc = "dda_after"
  /\ IF current_len_labels = Unbound
       THEN /\ pc' = "raised"
            /\ error' = "UnboundLocalError"
            /\ UNCHANGED << dda_start, printed, steps >>
       ELSE /\ dda_start' = IF current_len_labels # 2 THEN n_neighbours
                            ELSE dda_start
            /\ printed' = [steps |-> steps, n_neighbours |-> n_neighbours,
                           start_neighbours |-> dda_start',
                           stop_n_neighbour |-> stop_n_neighbour,
                           unique |-> Cardinality(labels) - 1]
            /\ steps' = steps - 1
            /\ pc' = "dda_while"
            /\ UNCHANGED error
  /\ UNCHANGED << inputs, peel_state, start_neighbours, dsn_locals,
                  stop_n_neighbour, matched, scan_state, result >>

\* after the for loop: the reset of start_neighbours, _print_process, steps -= 1
dda_after ==
  /\ pc = "dda_after"
  /\ IF current_len_labels = Unbound
       THEN /\ pc' = "raised"
            /\ error' = "UnboundLocalError"
            /\ UNCHANGED << dda_start, printed, steps >>
       ELSE /\ dda_start' = IF current_len_labels = 1 THEN n_neighbours
                            ELSE dda_start
            /\ printed' = [steps |-> steps, n_neighbours |-> n_neighbours,
                           start_neighbours |-> dda_start',
                           stop_n_neighbour |-> stop_n_neighbour,
                           unique |-> Cardinality(labels) - 1]
            /\ steps' = steps - 1
            /\ pc' = "dda_while"
            /\ UNCHANGED error
  /\ UNCHANGED << inputs, peel_state, start_neighbours, dsn_locals,
                  stop_n_neighbour, matched, scan_state, result >>

\* the rows of the returned frame whose cluster is not -1
Claimed == {c \in gdf_hotspot : cluster[c] # Noise}
\* Remainder without the filter on the cluster column
Remainder_Unfiltered == gdf_hotspot
\* the rows of the returned frame whose cluster is -1
Remainder == {c \in gdf_hotspot : cluster[c] = Noise}

\* find_all_desired_areas: the rest of the loop body
peel_all ==
  /\ pc = "peel" /\ op = "find_all"
  /\ desired_geohash' = desired_geohash \cup Claimed
  /\ geohash_rank' = [c \in (DOMAIN geohash_rank) \cup Claimed |->
                        IF c \in Claimed THEN i ELSE geohash_rank[c]]
  /\ gdf_hotspot' = Remainder
  /\ cluster' = << >>
  /\ i' = i + 1
  /\ k_iter' = k_iter + 1
  /\ pc' = "loop"
  /\ UNCHANGED << inputs, error, start_neighbours, dsn_locals, dda_locals,
                  n_neighbours, current_len_labels, labels, dbscan_calls,
                  result >>

\* find_n_desired_areas: the rest of the loop body
peel_n ==
  /\ pc = "peel" /\ op = "find_n"
  /\ desired_geohash' = desired_geohash \cup Claimed
  /\ gdf_hotspot' = Remainder
  /\ cluster' = << >>
  /\ k_iter' = k_iter + 1
  /\ pc' = "loop"
  /\ UNCHANGED << inputs, error, geohash_rank, i, start_neighbours,
                  dsn_locals, dda_locals, n_neighbours, current_len_labels,
                  labels, dbscan_calls, result >>

\* find_all_desired_areas after the loop: rank 0 for the geohashes that are
\* not in desired_geohash, then the column rank_desired_area
finish_all ==
  /\ pc = "finish" /\ op = "find_all"
  /\ geohash_rank' = [c \in (DOMAIN geohash_rank) \cup Hotspots |->
                        IF c \in Hotspots /\ c \notin desired_geohash
                          THEN 0 ELSE geohash_rank[c]]
  /\ result' = [c \in Hotspots |-> geohash_rank'[c]]
  /\ pc' = "done"
  /\ UNCHANGED << inputs, error, gdf_hotspot, desired_geohash, i, k_iter,
                  start_neighbours, dsn_locals, dda_locals, scan_state >>

\* find_n_desired_areas after the loop: the column desired_area
finish_n ==
  /\ pc = "finish" /\ op = "find_n"
  /\ result' = [c \in Hotspots |-> c \in desired_geohash]
  /\ pc' = "done"
  /\ UNCHANGED << inputs, error, peel_state, start_neighbours, dsn_locals,
                  dda_locals, scan_state >>

Next ==
  \/ find_all_enter
  \/ find_n_enter
  \/ find_all_loop
  \/ find_n_loop
  \/ dsn_enter
  \/ dsn_call
  \/ dsn_exit
  \/ dda_enter
  \/ dda_while
  \/ dda_call
  \/ dda_after
  \/ peel_all
  \/ peel_n
  \/ finish_all
  \/ finish_n

Spec == Init /\ [][Next]_vars


\* ----------------------------------------------------------------- claims
\* the operation has stopped: it returned or it raised
Stopped == pc \in {"done", "raised"}

\* the number of distinct labels DBSCAN yields on the remainder at n
LabelCount(n) == Cardinality(Unique(DBSCAN(gdf_hotspot, RangeOfArea, n)))

\* C1: a find_all_desired_areas run over a non-empty hotspot set stops only
\* by returning, with an empty remainder, after at most |hotspot set| peel
\* iterations.
C1_Claim ==
  (op = "find_all" /\ Hotspots # {} /\ Stopped) =>
    /\ pc = "done"
    /\ gdf_hotspot = {}
    /\ k_iter <= Cardinality(Hotspots)

\* C2: with exactly one hotspot cell find_all_desired_areas raises nothing
\* and returns after exactly one peel iteration, with rank 0 for the cell.
C2_Claim ==
  (op = "find_all" /\ Cardinality(Hotspots) = 1) =>
    /\ error = "none"
    /\ pc = "done" => (k_iter = 1 /\ \A c \in Hotspots : result[c] = 0)

\* C3: with an empty hotspot set, or an empty remainder handed to a peel
\* iteration, nothing is raised and no DBSCAN fit is made on it; with an
\* empty hotspot set the result is empty.
C3_Claim ==
  /\ (pc # "idle" /\ gdf_hotspot = {}) => error = "none"
  /\ Hotspots = {} => (dbscan_calls = 0 /\ (pc = "done" => result = << >>))

\* C4: in a find_all_desired_areas run a cell that has got a rank is in no
\* later remainder and keeps that rank to the end (the returned column
\* included); the rank it gets is the index of the peel iteration, counted
\* from 1, that claimed it out of the remainder.
C4_RankOnce ==
  [][ op = "find_all" =>
        /\ \A c \in DOMAIN geohash_rank :
             /\ c \notin gdf_hotspot'
             /\ c \in DOMAIN geohash_rank'
             /\ geohash_rank'[c] = geohash_rank[c]
        /\ pc = "peel" =>
             \A c \in (DOMAIN geohash_rank') \ (DOMAIN geohash_rank) :
               /\ c \in gdf_hotspot
               /\ geohash_rank'[c] = k_iter + 1
        /\ pc' = "done" =>
             \A c \in desired_geohash : result'[c] = geohash_rank[c] ]_vars

\* C4 witness: a run that returned with cells of rank 1 and cells of rank 2
C4_Witness ==
  /\ pc = "done" /\ op = "find_all"
  /\ \E c, d \in Hotspots : result[c] = 1 /\ result[d] = 2

\* C5: when some n in 1..start_neighbours yields exactly two distinct labels,
\* the clustering _determine_desired_area returns is the one of the largest
\* such n.
C5_Claim ==
  pc = "peel" =>
    LET two == {n \in 1 .. start_neighbours : LabelCount(n) = 2}
    IN  two # {} => cluster = DBSCAN(gdf_hotspot, RangeOfArea, Max(two))

\* C6: every min-neighbour value handed to DBSCAN by the two scans is between
\* 1 and the size of the remainder of the peel iteration.
C6_NeighboursInRange ==
  pc \in {"dsn_call", "dda_call"} =>
    /\ 1 <= n_neighbours
    /\ n_neighbours <= Cardinality(gdf_hotspot)

\* C6 witness: in the second peel iteration, _determine_desired_area is about
\* to scan the start value it widened after a match
C6_Witness ==
  /\ pc = "dda_call" /\ k_iter = 1
  /\ stop_n_neighbour > InitialStop
  /\ n_neighbours = dda_start
  /\ n_neighbours = stop_n_neighbour + steps + 1

\* C7: the clustering _determine_desired_area returns was made by a DBSCAN
\* fit whose n is at most the start_neighbours it was called with.
C7_ReturnedBelowStart ==
  pc = "peel" =>
    /\ cluster = DBSCAN(gdf_hotspot, RangeOfArea, n_neighbours)
    /\ n_neighbours <= start_neighbours

\* C7 witness: _determine_desired_area returns the match of its last pass,
\* having widened its own start_neighbours above that match
C7_Witness ==
  /\ pc = "peel"
  /\ current_len_labels = 2
  /\ stop_n_neighbour = n_neighbours
  /\ dda_start = n_neighbours + 1
  /\ n_neighbours < start_neighbours

\* C8: find_n_desired_areas raises nothing, makes exactly n_desired_areas
\* peel iterations and returns every hotspot cell, flagged exactly when it
\* was claimed; with n_desired_areas = 0 no DBSCAN fit is made and no cell is
\* flagged.
C8_Claim ==
  op = "find_n" =>
    /\ error = "none"
    /\ pc = "done" =>
         /\ k_iter = n_desired_areas
         /\ DOMAIN result = Hotspots
         /\ \A c \in Hotspots : result[c] = (c \in desired_geohash)
         /\ n_desired_areas = 0 =>
              (dbscan_calls = 0 /\ \A c \in Hotspots : result[c] = FALSE)

\* C9: for a non-empty remainder the step of _determine_start_neighbours,
\* round(0.005 * size), is at least 1.
C9_Claim ==
  (pc \notin {"idle", "loop", "dsn_enter"} /\ n_sites >= 1) => dsn_steps >= 1

\* a pass of _determine_desired_area has ended without a match
PassWithoutMatch ==
  pc = "dda_after" /\ current_len_labels # Unbound /\ current_len_labels # 2

\* C10 as stated: after a pass without a match start_neighbours is the last
\* scanned n, whatever the label count of that last scan.
C10_Original ==
  [][ PassWithoutMatch => dda_start' = n_neighbours ]_vars

\* C10 as amended: after a pass without a match start_neighbours is the last
\* scanned n when that scan yielded exactly 1 label, and is left as it was
\* when it yielded 3 labels or more.
C10_ResetOnlyOnOneLabel ==
  [][ PassWithoutMatch =>
        dda_start' = IF current_len_labels = 1 THEN n_neighbours
                     ELSE dda_start ]_vars

\* C10 witness: a pass has ended on a scan of 3 labels or more, and
\* start_neighbours is not the n of that scan
C10_Witness ==
  /\ pc = "dda_while" /\ printed # << >>
  /\ printed.unique >= 2
  /\ current_len_labels >= 3
  /\ printed.n_neighbours = n_neighbours
  /\ dda_start # n_neighbours


\* C11: at the start of every pass of _determine_desired_area
\* start_neighbours >= stop_n_neighbour >= 1, so the scan of the pass is not
\* empty; and when some scan of the call has yielded exactly 2 labels, the
\* last pass ends on such a scan, so the clustering returned, which is the
\* one of the last DBSCAN fit, has exactly 2 distinct labels.
C11_MatchSurvives ==
  /\ (pc = "dda_while" /\ steps > 0) =>
       (dda_start >= stop_n_neighbour /\ stop_n_neighbour >= 1)
  /\ (pc = "peel" /\ matched) =>
       /\ current_len_labels = 2
       /\ cluster = DBSCAN(gdf_hotspot, RangeOfArea, n_neighbours)
       /\ Cardinality(Unique(cluster)) = 2

\* C11 witness: a call returns the match of its last pass, found well below
\* the start it was given, and the last line printed reports one desired area
C11_Witness ==
  /\ pc = "peel" /\ matched
  /\ current_len_labels = 2
  /\ n_neighbours = stop_n_neighbour
  /\ n_neighbours + InitialSteps < start_neighbours
  /\ printed.unique = 1

\* C12: when find_all_desired_areas returns, every hotspot cell was claimed
\* by a peel iteration and has a rank of 1 or more in the returned column;
\* rank 0 is not in it.
C12_NoRankZero ==
  (pc = "done" /\ op = "find_all") =>
    /\ DOMAIN result = Hotspots
    /\ \A c \in Hotspots :
         /\ c \in desired_geohash
         /\ result[c] >= 1
         /\ result[c] <= k_iter

\* C12 witness: a run over a non-empty hotspot set has returned after a
\* single peel iteration that claimed every cell
C12_Witness ==
  /\ pc = "done" /\ op = "find_all"
  /\ Hotspots # {}
  /\ k_iter = 1
  /\ \A c \in Hotspots : result[c] = 1

====
